---------------------------- MODULE Spec2Model ----------------------------
(***************************************************************************)
(* linger2ibex.py: conversion of a "linger" stimulus file into the "ibex"  *)
(* JavaScript item list.                                                   *)
(*                                                                         *)
(* A character is its Unicode code point and a text is a sequence of code  *)
(* points, so that str.strip, str.split, str.rsplit, str.startswith,       *)
(* str.lower, int() and str.format are computed character by character as  *)
(* Python computes them, for every character of Unicode.  The text of a    *)
(* literal is written after it in a comment.                               *)
(* A call that raises is the record [err |-> <exception type>, val |-> <<>>]*)
(* and a call that returns v is [err |-> "none", val |-> v].               *)
(***************************************************************************)
EXTENDS Integers, Sequences, FiniteSets, TLC

(***************************************************************************)
(* Bounds of the model.                                                    *)
(***************************************************************************)
\* longest input file, in lines, of the pipeline specification
MaxLines == 5
\* longest list of stimuli handed directly to write_ibex
MaxStims == 2

(***************************************************************************)
(* Module constants of linger2ibex.py.                                     *)
(***************************************************************************)
SPACE_JOINER == <<44, 32>> (* ", " *)
LINGER_SPEC_PREFIX == <<35, 32>> (* "# " *)
QUESTION_PREFIX == <<63, 32>> (* "? " *)
FILLER == <<102, 105, 108, 108, 101, 114>> (* "filler" *)
YES == <<89, 101, 115>> (* "Yes" *)
NO == <<78, 111>> (* "No" *)
\* default value of main's stimtype parameter
STIMTYPE == <<68, 97, 115, 104, 101, 100, 83, 101, 110, 116, 101, 110, 99, 101>> (* "DashedSentence" *)

(***************************************************************************)
(* State.                                                                  *)
(***************************************************************************)
VARIABLES
    lines,          \* run's argument: the lines of the input file, untrimmed
    python,         \* the interpreter that runs the program: its release line
    sys_stdout,     \* the text stream sys.stdout: its encoding and its
                    \* error handler
    pos,            \* how many lines isplit's xs_it has handed out
    pc,             \* where the run is
    blocks,         \* per block isplit has yielded, the lines read from it
    subit_live,     \* isplit's subit can still hand out lines
    stim,           \* split_item's list stim
    line,           \* split_item's loop variable line (<<>>: not yet bound)
    resume_at,      \* where the running split_item generator continues
    groups,         \* the groups the running split_item generator has yielded
    parsed,         \* the groups parse_stim has been called with, in order
    stims,          \* the Stims list(stims) has collected
    error,          \* the exception that ended the run, and where it was raised
    result,         \* what run returned
    stdout,         \* the text main has printed
    call            \* a direct call of one function: name, argument, outcome

vars == <<lines, python, sys_stdout, pos, pc, blocks, subit_live, stim, line,
          resume_at, groups, parsed, stims, error, result, stdout, call>>

pipeline == <<lines, python, sys_stdout, pos, pc, blocks, subit_live, stim,
              line, resume_at, groups, parsed, stims, error, result, stdout>>

NoError == [type |-> "none", at |-> "none"]
NoCall == [fn |-> "none", arg |-> <<>>, ret |-> <<>>]

(***************************************************************************)
(* The interpreter.                                                        *)
(***************************************************************************)
\* the release lines of CPython the program runs on, each in its last
\* release
PYTHONS == {"3.6", "3.7", "3.8", "3.9", "3.10", "3.11", "3.12", "3.13"}

\* the interpreters the pipeline is run under: the oldest and the newest
PIPELINE_PYTHONS == {"3.6", "3.13"}

\* a StopIteration raised in a generator body ends the generator (Python
\* 3.6); from Python 3.7 on it becomes a RuntimeError (PEP 479)
legacy_stop == python = "3.6"

\* int() has its digit limit (Python 3.7 and later)
int_limited == python # "3.6"

\* the version of the Unicode database of the interpreter (unicodedata.
\* unidata_version), without its minor part
UNICODE ==
    CASE python = "3.6" -> 9
      [] python = "3.7" -> 11
      [] python = "3.8" -> 12
      [] python \in {"3.9", "3.10"} -> 13
      [] python = "3.11" -> 14
      [] python \in {"3.12", "3.13"} -> 15

\* the streams sys.stdout can be: its encoding and error handler come from
\* the locale or from PYTHONIOENCODING
STDOUTS ==
    [encoding : {"ascii", "utf-8"}, errors : {"strict", "surrogateescape"}]

\* the streams the pipeline is run with: that of Python 3.6 in the POSIX
\* locale and that of a UTF-8 locale
PIPELINE_STDOUTS ==
    { [encoding |-> "ascii", errors |-> "surrogateescape"],
      [encoding |-> "utf-8", errors |-> "strict"] }

\* whether sys.stdout can encode the character c: ASCII has the characters
\* below 128, UTF-8 all but the surrogates, and surrogateescape turns the
\* surrogates U+DC80 to U+DCFF back into bytes
encodable(c) ==
    \/ IF sys_stdout.encoding = "ascii" THEN c < 128
       ELSE c \notin 55296..57343
    \/ sys_stdout.errors = "surrogateescape" /\ c \in 56448..56575

(***************************************************************************)
(* Character tables of the interpreter.                                    *)
(***************************************************************************)
\* the characters str.strip() and str.split() treat as whitespace
\* (str.isspace): \t \n \x0b \x0c \r, \x1c to \x1f, space, \x85, \xa0 and
\* the space characters of Unicode
WHITESPACE ==
    (9..13) \cup (28..32) \cup {133, 160, 5760} \cup (8192..8202)
    \cup {8232, 8233, 8239, 8287, 12288}

\* the characters int() removes from both ends of its argument: the
\* whitespace characters but \x1c to \x1f
INT_WHITESPACE == WHITESPACE \ (28..31)

\* the code point of the digit zero of every decimal digit system (category
\* Nd) of Unicode 9.0; the digits 0 to 9 of a system are consecutive
DECIMAL_ZEROS_9 ==
    { 48, 1632, 1776, 1984, 2406, 2534, 2662, 2790, 2918, 3046,
      3174, 3302, 3430, 3558, 3664, 3792, 3872, 4160, 4240, 6112,
      6160, 6470, 6608, 6784, 6800, 6992, 7088, 7232, 7248, 42528,
      43216, 43264, 43472, 43504, 43600, 44016, 65296, 66720, 69734, 69872,
      69942, 70096, 70384, 70736, 70864, 71248, 71360, 71472, 71904, 72784,
      92768, 93008, 120782, 120792, 120802, 120812, 120822, 125264 }

\* the digit systems int() knows: those of the interpreter's Unicode
\* database, which has gained systems with every version
DECIMAL_ZEROS ==
    DECIMAL_ZEROS_9
    \cup (IF UNICODE >= 11 THEN {68912, 73040, 73120} ELSE {})
    \cup (IF UNICODE >= 12 THEN {123200, 123632} ELSE {})
    \cup (IF UNICODE >= 13 THEN {72016, 130032} ELSE {})
    \cup (IF UNICODE >= 14 THEN {92864} ELSE {})
    \cup (IF UNICODE >= 15 THEN {73552, 124144} ELSE {})

\* the longest int() literal, in digits, that the interpreter converts
\* (sys.int_info.default_max_str_digits)
INT_MAX_STR_DIGITS == 4300

\* KELVIN SIGN, the one character outside A to Z whose lowercase is a
\* letter a to z
KELVIN_SIGN == 8490

(***************************************************************************)
(* Outcome of a call.                                                      *)
(***************************************************************************)
Ok(v) == [err |-> "none", val |-> v]
Raise(e) == [err |-> e, val |-> <<>>]
\* an exception propagates: no function of the program catches one
Try(r, F(_)) == IF r.err # "none" THEN Raise(r.err) ELSE F(r.val)

(***************************************************************************)
(* Python built-ins used by the program.                                   *)
(***************************************************************************)
Range(s) == {s[i] : i \in 1..Len(s)}

\* str.startswith(prefix)
startswith(s, prefix) ==
    /\ Len(s) >= Len(prefix)
    /\ SubSeq(s, 1, Len(prefix)) = prefix

RECURSIVE lstrip(_, _)
lstrip(s, chars) ==
    IF s # <<>> /\ s[1] \in chars THEN lstrip(Tail(s), chars) ELSE s

RECURSIVE rstrip(_, _)
rstrip(s, chars) ==
    IF s # <<>> /\ s[Len(s)] \in chars
    THEN rstrip(SubSeq(s, 1, Len(s) - 1), chars)
    ELSE s

\* str.strip(chars): removes from both ends every character that is in the
\* SET of characters chars; str.strip() uses the whitespace characters
strip(s, chars) == rstrip(lstrip(s, chars), chars)

\* the first whitespace-delimited token of s, s not starting with whitespace
RECURSIVE first_token(_)
first_token(s) ==
    IF s = <<>> \/ s[1] \in WHITESPACE THEN <<>>
    ELSE <<s[1]>> \o first_token(Tail(s))

\* str.split(): the maximal runs of non-whitespace characters
RECURSIVE split(_)
split(s) ==
    LET t == lstrip(s, WHITESPACE)
    IN  IF t = <<>> THEN <<>>
        ELSE LET tok == first_token(t)
             IN  <<tok>> \o split(SubSeq(t, Len(tok) + 1, Len(t)))

\* str.rsplit(" ", 1): split at the last space character, if there is one
rsplit1(s) ==
    LET spaces == {i \in 1..Len(s) : s[i] = 32 (* ' ' *)}
    IN  IF spaces = {} THEN <<s>>
        ELSE LET k == CHOOSE i \in spaces : \A j \in spaces : j <= i
             IN  <<SubSeq(s, 1, k - 1), SubSeq(s, k + 1, Len(s))>>

\* s.lower() == word, for a word of the letters a to z: every character of
\* s is the letter of word at its place, or that letter's capital, or the
\* KELVIN SIGN at the place of a k.  (No other character has a lowercase
\* made of letters a to z, and every character has a lowercase of at least
\* one character.)
lower_equals(s, word) ==
    /\ Len(s) = Len(word)
    /\ \A i \in 1..Len(s) :
          \/ s[i] = word[i]
          \/ s[i] = word[i] - 32
          \/ (word[i] = 107 (* 'k' *) /\ s[i] = KELVIN_SIGN)

\* a decimal digit of a digit system the interpreter knows
is_digit(c) == \E zero \in DECIMAL_ZEROS : zero <= c /\ c <= zero + 9
digit_value(c) == c - (CHOOSE zero \in DECIMAL_ZEROS : zero <= c /\ c <= zero + 9)

\* the digits of an int() literal without its sign: digits, with single
\* underscores allowed between two digits
int_digits_valid(d) ==
    /\ d # <<>>
    /\ \A i \in 1..Len(d) : is_digit(d[i]) \/ d[i] = 95 (* '_' *)
    /\ is_digit(d[1]) /\ is_digit(d[Len(d)])
    /\ \A i \in 1..(Len(d) - 1) : ~(d[i] = 95 (* '_' *) /\ d[i + 1] = 95 (* '_' *))

int_sign(tok) == tok # <<>> /\ tok[1] \in {43 (* '+' *), 45 (* '-' *)}
\* the literal without the whitespace around it and without its sign
int_body(tok) ==
    IF int_sign(strip(tok, INT_WHITESPACE))
    THEN Tail(strip(tok, INT_WHITESPACE))
    ELSE strip(tok, INT_WHITESPACE)

(***************************************************************************)
(* Records of the data model (namedtuples Stim, Spec, Question).           *)
(***************************************************************************)
Spec_(experiment, condition, item, rest) ==
    [experiment |-> experiment, condition |-> condition, item |-> item, rest |-> rest]
\* questions is the lazy map(parse_question, questions), an iterator that
\* can be run through once: the question lines it has not handed out yet,
\* each parsed when the iterator reaches it
Stim(spec, sentence, questions) ==
    [spec |-> spec, sentence |-> sentence, questions |-> questions]
Question(question, answers) == [question |-> question, answers |-> answers]

(***************************************************************************)
(* int() and str.format of an int.                                         *)
(***************************************************************************)
\* how many digits the literal has
digit_count(d) == Cardinality({i \in 1..Len(d) : is_digit(d[i])})

\* whether int(tok) returns
int_valid(tok) ==
    /\ int_digits_valid(int_body(tok))
    /\ int_limited => digit_count(int_body(tok)) <= INT_MAX_STR_DIGITS

RECURSIVE digits_value(_)
digits_value(d) ==
    IF d = <<>> THEN 0
    ELSE IF d[Len(d)] = 95 (* '_' *) THEN digits_value(SubSeq(d, 1, Len(d) - 1))
    ELSE 10 * digits_value(SubSeq(d, 1, Len(d) - 1)) + digit_value(d[Len(d)])

\* int(tok), for a token that int_valid accepts
int_value(tok) ==
    IF strip(tok, INT_WHITESPACE)[1] = 45 (* '-' *) THEN 0 - digits_value(int_body(tok))
    ELSE digits_value(int_body(tok))

RECURSIVE nat_str(_)
nat_str(n) ==
    IF n < 10 THEN <<48 (* '0' *) + n>>
    ELSE nat_str(n \div 10) \o <<48 (* '0' *) + (n % 10)>>

\* "{item}".format(item=n) for an int n
int_str(n) == IF n < 0 THEN <<45 (* '-' *)>> \o nat_str(0 - n) ELSE nat_str(n)

\* sep.join(xs)
RECURSIVE join(_, _)
join(sep, xs) ==
    IF xs = <<>> THEN <<>>
    ELSE IF Len(xs) = 1 THEN xs[1]
    ELSE xs[1] \o sep \o join(sep, Tail(xs))

\* chain.from_iterable over fully consumed sequences
RECURSIVE flat(_)
flat(xss) == IF xss = <<>> THEN <<>> ELSE xss[1] \o flat(Tail(xss))

(***************************************************************************)
(* Rendering.                                                              *)
(***************************************************************************)
enquote(x) == <<34 (* '"' *)>> \o x \o <<34 (* '"' *)>>

write_answers(answers) ==
    join(SPACE_JOINER, [i \in 1..Len(answers) |-> enquote(answers[i])])

\* QUESTION_TEMPLATE.format(question=..., answers=...)
write_question(question) ==
    <<10, 34, 81, 117, 101, 115, 116, 105, 111, 110, 34, 44, 32, 123, 113, 58, 32, 34>> (* "\n\"Question\", {q: \"" *)
    \o question.question
    \o <<34, 44, 32, 97, 115, 58, 32, 91>> (* "\", as: [" *)
    \o write_answers(question.answers)
    \o <<93, 125, 10>> (* "]}\n" *)

write_conditions(spec) == join(<<95>> (* "_" *), <<spec.experiment, spec.condition>>)

\* SPEC_TEMPLATE.format(condition=..., item=...)
SPEC_TEMPLATE(condition, item) ==
    <<91, 34>> (* "[\"" *)
    \o condition
    \o <<34, 44, 32>> (* "\", " *)
    \o int_str(item)
    \o <<93>> (* "]" *)

\* write_spec taking only the experiment "filler" itself for a filler
write_spec_exact_filler(spec) ==
    IF spec.experiment = FILLER
    THEN enquote(write_conditions(spec))
    ELSE SPEC_TEMPLATE(write_conditions(spec), spec.item)

write_spec(spec) ==
    IF startswith(spec.experiment, FILLER)
    THEN enquote(write_conditions(spec))
    ELSE SPEC_TEMPLATE(write_conditions(spec), spec.item)

(***************************************************************************)
(* Parsing.                                                                *)
(***************************************************************************)
\* parse_question with the two answer orders exchanged
parse_answer_swapped(answer) ==
    IF lower_equals(answer, <<121>> (* "y" *)) \/ lower_equals(answer, <<121, 101, 115>> (* "yes" *))
    THEN Ok(<<NO, YES>>)
    ELSE IF lower_equals(answer, <<110>> (* "n" *)) \/ lower_equals(answer, <<110, 111>> (* "no" *))
    THEN Ok(<<YES, NO>>)
    ELSE Raise("ValueError")

\* lines 138-143
parse_answer(answer) ==
    IF lower_equals(answer, <<121>> (* "y" *)) \/ lower_equals(answer, <<121, 101, 115>> (* "yes" *))
    THEN Ok(<<YES, NO>>)
    ELSE IF lower_equals(answer, <<110>> (* "n" *)) \/ lower_equals(answer, <<110, 111>> (* "no" *))
    THEN Ok(<<NO, YES>>)
    ELSE Raise("ValueError")

\* lines 137-144, parts being line.rsplit(" ", 1): unpacking it into
\* question, answer fails unless it has two elements
parse_question_parts(parts) ==
    IF Len(parts) # 2 THEN Raise("ValueError")
    ELSE Try(parse_answer(parts[2]),
             LAMBDA answers : Ok(Question(parts[1], answers)))

parse_question(line_) ==
    IF ~startswith(line_, QUESTION_PREFIX) THEN Raise("AssertionError")
    ELSE parse_question_parts(rsplit1(strip(line_, Range(QUESTION_PREFIX))))

\* lines 166-167, toks being line.split(): unpacking it into experiment,
\* item, conditions, *rest fails unless it has three elements
parse_spec_tokens(toks) ==
    IF Len(toks) < 3 THEN Raise("ValueError")
    ELSE IF ~int_valid(toks[2]) THEN Raise("ValueError")
    ELSE Ok(Spec_(toks[1], toks[3], int_value(toks[2]),
                  SubSeq(toks, 4, Len(toks))))

parse_spec(line_) ==
    IF ~startswith(line_, LINGER_SPEC_PREFIX) THEN Raise("AssertionError")
    ELSE parse_spec_tokens(split(strip(line_, Range(LINGER_SPEC_PREFIX))))

\* unpacking lines into spec_str, sentence, *questions fails unless it has
\* two elements
parse_stim(lines_) ==
    IF Len(lines_) < 2 THEN Raise("ValueError")
    ELSE Try(parse_spec(lines_[1]),
             LAMBDA spec : Ok(Stim(spec, lines_[2], SubSeq(lines_, 3, Len(lines_)))))

\* SPACE_JOINER.join(map(write_question, questions)), questions being the
\* lazy map(parse_question, ...) of parse_stim: each question line is parsed
\* when the join reaches it, and the first failure propagates
\* write_questions leaving out, instead of failing on, a question line that
\* parse_question rejects
RECURSIVE write_question_list_skipping(_)
write_question_list_skipping(questions) ==
    IF questions = <<>> THEN Ok(<<>>)
    ELSE IF parse_question(questions[1]).err # "none"
         THEN write_question_list_skipping(Tail(questions))
         ELSE Try(parse_question(questions[1]),
                  LAMBDA q : Try(write_question_list_skipping(Tail(questions)),
                                 LAMBDA more : Ok(<<write_question(q)>> \o more)))

RECURSIVE write_question_list(_)
write_question_list(questions) ==
    IF questions = <<>> THEN Ok(<<>>)
    ELSE Try(parse_question(questions[1]),
             LAMBDA q : Try(write_question_list(Tail(questions)),
                            LAMBDA more : Ok(<<write_question(q)>> \o more)))

write_questions(questions) ==
    Try(write_question_list(questions),
        LAMBDA rendered : Ok(join(SPACE_JOINER, rendered)))

\* what write_questions leaves of the iterator questions: nothing when it
\* returns, and what follows the question line it failed on when it raises
RECURSIVE questions_left(_)
questions_left(questions) ==
    IF questions = <<>> THEN <<>>
    ELSE IF parse_question(questions[1]).err # "none" THEN Tail(questions)
    ELSE questions_left(Tail(questions))

\* STIM_TEMPLATE.format(spec=..., stimtype=..., sentence=..., questions=...)
write_stim(stimtype, stim_) ==
    Try(write_questions(stim_.questions),
        LAMBDA questions :
            Ok(<<10, 91>> (* "\n[" *)
               \o write_spec(stim_.spec)
               \o <<44, 32, 34>> (* ", \"" *)
               \o stimtype
               \o <<34, 44, 32, 123, 115, 58, 32, 34>> (* "\", {s: \"" *)
               \o stim_.sentence
               \o <<34, 125, 44, 32>> (* "\"}, " *)
               \o questions
               \o <<93, 10>> (* "]\n" *)))

\* the Stim once write_stim has been called with it
stim_written(stim_) == [stim_ EXCEPT !.questions = questions_left(@)]

(***************************************************************************)
(* Line grouping.                                                          *)
(***************************************************************************)
\* map(str.strip, lines)
stripped(lines_) == [i \in 1..Len(lines_) |-> strip(lines_[i], WHITESPACE)]

\* iter(partial(next, xs_it), sep) when xs_it has handed out its first pos
\* elements: the elements it hands out until it is exhausted, those up to,
\* not including, the next one equal to sep, or up to the end of xs
RECURSIVE subit(_, _, _)
subit(xs, at, sep) ==
    IF at >= Len(xs) \/ xs[at + 1] = sep THEN <<>>
    ELSE <<xs[at + 1]>> \o subit(xs, at + 1, sep)

\* how many elements xs_it has handed out once subit(xs, at, sep) is
\* exhausted: the run and the separator that ended it
subit_end(xs, at, sep) ==
    IF at + Len(subit(xs, at, sep)) < Len(xs)
    THEN at + Len(subit(xs, at, sep)) + 1
    ELSE at + Len(subit(xs, at, sep))

\* the lines the for loop of line 156 takes from the lines rest until it
\* stops at the yield of line 158: up to the first one that starts with
\* "# ", that one included, or all of them
RECURSIVE for_lines(_)
for_lines(rest) ==
    IF rest = <<>> THEN <<>>
    ELSE IF startswith(rest[1], LINGER_SPEC_PREFIX) THEN <<rest[1]>>
    ELSE <<rest[1]>> \o for_lines(Tail(rest))

\* the loop stopped at line 158, holding a "# " line in line
at_spec_line(read) ==
    read # <<>> /\ startswith(read[Len(read)], LINGER_SPEC_PREFIX)

\* split_item resumed after the yield of line 158 without the stim = [] of
\* line 159
resumed_stim_no_reset(stim_, line_) == Append(stim_, line_)

\* lines 159-160: stim = []; stim.append(line)
resumed_stim(stim_, line_) == <<line_>>

\* lines 155-161 run to their end on the rest of the lines: the groups
\* yielded
RECURSIVE split_item_loop(_, _)
split_item_loop(stim_, rest) ==
    IF rest = <<>> THEN <<stim_>>
    ELSE IF startswith(rest[1], LINGER_SPEC_PREFIX)
         THEN <<stim_>> \o split_item_loop(resumed_stim(stim_, rest[1]), Tail(rest))
         ELSE split_item_loop(Append(stim_, rest[1]), Tail(rest))

\* list(split_item(lines)).  On no lines next(lines) raises StopIteration in
\* the generator body at line 153
split_item(lines_) ==
    IF lines_ = <<>>
    THEN IF legacy_stop THEN Ok(<<>>) ELSE Raise("RuntimeError")
    ELSE IF ~startswith(lines_[1], LINGER_SPEC_PREFIX) THEN Raise("AssertionError")
    ELSE Ok(split_item_loop(<<lines_[1]>>, Tail(lines_)))

(***************************************************************************)
(* write_ibex, after stims = list(stims).                                  *)
(***************************************************************************)
\* map(write, stims): the first stimulus whose rendering fails ends it
RECURSIVE write_stim_list(_, _)
write_stim_list(stimtype, stims_) ==
    IF stims_ = <<>> THEN Ok(<<>>)
    ELSE Try(write_stim(stimtype, stims_[1]),
             LAMBDA first : Try(write_stim_list(stimtype, Tail(stims_)),
                                LAMBDA more : Ok(<<first>> \o more)))

\* the Stims once ",".join(map(write, stims)) has run: those up to the
\* first one whose rendering fails have been written
RECURSIVE stims_written(_, _)
stims_written(stimtype, stims_) ==
    IF stims_ = <<>> THEN <<>>
    ELSE IF write_stim(stimtype, stims_[1]).err # "none"
         THEN <<stim_written(stims_[1])>> \o Tail(stims_)
         ELSE <<stim_written(stims_[1])>> \o stims_written(stimtype, Tail(stims_))

\* write_ibex collecting the conditions in a list instead of a set
conditions_iter_list(stims_) ==
    { [i \in 1..Len(stims_) |-> write_conditions(stims_[i].spec)] }

\* the orders in which iterating the set
\* {write_conditions(stim.spec) for stim in stims} can hand out its elements
\* (the iteration order of a set of str depends on the hash seed)
conditions_iter(stims_) ==
    LET conditions == {write_conditions(stims_[i].spec) : i \in 1..Len(stims_)}
    IN  {order \in [1..Cardinality(conditions) -> conditions] :
            \A i, j \in 1..Cardinality(conditions) : i # j => order[i] # order[j]}

\* IBEX_TEMPLATE.format(conditions=..., stims=...)
IBEX_TEMPLATE(conditions, stims_) ==
    <<118, 97, 114, 32, 115, 104, 117, 102, 102, 108, 101, 83, 101, 113, 117, 101, 110, 99, 101, 32, 61, 32, 115, 101, 113, 40, 34, 105, 110, 116, 114, 111, 34, 44, 32, 115, 101, 112, 87, 105, 116, 104, 40, 34, 115, 101, 112, 34, 44, 32, 115, 101, 113, 40, 34, 112, 114, 97, 99, 116, 105, 99, 101, 34, 44, 32, 114, 115, 104, 117, 102, 102, 108, 101, 40>> (* var shuffleSequence = seq("intro", sepWith("sep", seq("practice", rshuffle( *)
    \o conditions
    \o <<41, 41, 41, 41, 10>> (* ))))\n *)
    \o <<118, 97, 114, 32, 112, 114, 97, 99, 116, 105, 99, 101, 73, 116, 101, 109, 84, 121, 112, 101, 115, 32, 61, 32, 91, 34, 112, 114, 97, 99, 116, 105, 99, 101, 34, 93, 59, 10>> (* var practiceItemTypes = ["practice"];\n *)
    \o <<10>> (* \n *)
    \o <<118, 97, 114, 32, 100, 101, 102, 97, 117, 108, 116, 115, 32, 61, 32, 91, 10>> (* var defaults = [\n *)
    \o <<32, 32, 32, 32, 34, 83, 101, 112, 97, 114, 97, 116, 111, 114, 34, 44, 32, 123, 10>> (*     "Separator", {\n *)
    \o <<32, 32, 32, 32, 32, 32, 32, 32, 116, 114, 97, 110, 115, 102, 101, 114, 58, 32, 49, 48, 48, 48, 44, 10>> (*         transfer: 1000,\n *)
    \o <<32, 32, 32, 32, 32, 32, 32, 32, 110, 111, 114, 109, 97, 108, 77, 101, 115, 115, 97, 103, 101, 58, 32, 34, 80, 108, 101, 97, 115, 101, 32, 119, 97, 105, 116, 32, 102, 111, 114, 32, 116, 104, 101, 32, 110, 101, 120, 116, 32, 115, 101, 110, 116, 101, 110, 99, 101, 46, 34, 44, 10>> (*         normalMessage: "Please wait for the next sentence.",\n *)
    \o <<32, 32, 32, 32, 32, 32, 32, 32, 101, 114, 114, 111, 114, 77, 101, 115, 115, 97, 103, 101, 58, 32, 34, 87, 114, 111, 110, 103, 46, 32, 80, 108, 101, 97, 115, 101, 32, 119, 97, 105, 116, 32, 102, 111, 114, 32, 116, 104, 101, 32, 110, 101, 120, 116, 32, 115, 101, 110, 116, 101, 110, 99, 101, 46, 34, 10>> (*         errorMessage: "Wrong. Please wait for the next sentence."\n *)
    \o <<32, 32, 32, 32, 125, 44, 10>> (*     },\n *)
    \o <<32, 32, 32, 32, 34, 68, 97, 115, 104, 101, 100, 83, 101, 110, 116, 101, 110, 99, 101, 34, 44, 32, 123, 10>> (*     "DashedSentence", {\n *)
    \o <<32, 32, 32, 32, 32, 32, 32, 32, 109, 111, 100, 101, 58, 32, 34, 115, 101, 108, 102, 45, 112, 97, 99, 101, 100, 32, 114, 101, 97, 100, 105, 110, 103, 34, 10>> (*         mode: "self-paced reading"\n *)
    \o <<32, 32, 32, 32, 125, 44, 10>> (*     },\n *)
    \o <<32, 32, 32, 32, 34, 65, 99, 99, 101, 112, 116, 97, 98, 105, 108, 105, 116, 121, 74, 117, 100, 103, 109, 101, 110, 116, 34, 44, 32, 123, 10>> (*     "AcceptabilityJudgment", {\n *)
    \o <<32, 32, 32, 32, 32, 32, 32, 32, 97, 115, 58, 32, 91, 34, 49, 34, 44, 32, 34, 50, 34, 44, 32, 34, 51, 34, 44, 32, 34, 52, 34, 44, 32, 34, 53, 34, 44, 32, 34, 54, 34, 44, 32, 34, 55, 34, 93, 44, 10>> (*         as: ["1", "2", "3", "4", "5", "6", "7"],\n *)
    \o <<32, 32, 32, 32, 32, 32, 32, 32, 112, 114, 101, 115, 101, 110, 116, 65, 115, 83, 99, 97, 108, 101, 58, 32, 116, 114, 117, 101, 44, 10>> (*         presentAsScale: true,\n *)
    \o <<32, 32, 32, 32, 32, 32, 32, 32, 105, 110, 115, 116, 114, 117, 99, 116, 105, 111, 110, 115, 58, 32, 34, 85, 115, 101, 32, 110, 117, 109, 98, 101, 114, 32, 107, 101, 121, 115, 32, 111, 114, 32, 99, 108, 105, 99, 107, 32, 98, 111, 120, 101, 115, 32, 116, 111, 32, 97, 110, 115, 119, 101, 114, 46, 34, 44, 10>> (*         instructions: "Use number keys or click boxes to answer.",\n *)
    \o <<32, 32, 32, 32, 32, 32, 32, 32, 108, 101, 102, 116, 67, 111, 109, 109, 101, 110, 116, 58, 32, 34, 40, 66, 97, 100, 41, 34, 44, 32, 114, 105, 103, 104, 116, 67, 111, 109, 109, 101, 110, 116, 58, 32, 34, 40, 71, 111, 111, 100, 41, 34, 10>> (*         leftComment: "(Bad)", rightComment: "(Good)"\n *)
    \o <<32, 32, 32, 32, 125, 44, 10>> (*     },\n *)
    \o <<32, 32, 32, 32, 34, 81, 117, 101, 115, 116, 105, 111, 110, 34, 44, 32, 123, 10>> (*     "Question", {\n *)
    \o <<32, 32, 32, 32, 32, 32, 32, 32, 104, 97, 115, 67, 111, 114, 114, 101, 99, 116, 58, 32, 116, 114, 117, 101, 10>> (*         hasCorrect: true\n *)
    \o <<32, 32, 32, 32, 125, 44, 10>> (*     },\n *)
    \o <<32, 32, 32, 32, 34, 77, 101, 115, 115, 97, 103, 101, 34, 44, 32, 123, 10>> (*     "Message", {\n *)
    \o <<32, 32, 32, 32, 32, 32, 32, 32, 104, 105, 100, 101, 80, 114, 111, 103, 114, 101, 115, 115, 66, 97, 114, 58, 32, 116, 114, 117, 101, 10>> (*         hideProgressBar: true\n *)
    \o <<32, 32, 32, 32, 125, 44, 10>> (*     },\n *)
    \o <<32, 32, 32, 32, 34, 70, 111, 114, 109, 34, 44, 32, 123, 10>> (*     "Form", {\n *)
    \o <<32, 32, 32, 32, 32, 32, 32, 32, 104, 105, 100, 101, 80, 114, 111, 103, 114, 101, 115, 115, 66, 97, 114, 58, 32, 116, 114, 117, 101, 44, 10>> (*         hideProgressBar: true,\n *)
    \o <<32, 32, 32, 32, 32, 32, 32, 32, 99, 111, 110, 116, 105, 110, 117, 101, 79, 110, 82, 101, 116, 117, 114, 110, 58, 32, 116, 114, 117, 101, 44, 10>> (*         continueOnReturn: true,\n *)
    \o <<32, 32, 32, 32, 32, 32, 32, 32, 115, 97, 118, 101, 82, 101, 97, 99, 116, 105, 111, 110, 84, 105, 109, 101, 58, 32, 116, 114, 117, 101, 10>> (*         saveReactionTime: true\n *)
    \o <<32, 32, 32, 32, 125, 10>> (*     }\n *)
    \o <<93, 59, 10>> (* ];\n *)
    \o <<10>> (* \n *)
    \o <<118, 97, 114, 32, 105, 116, 101, 109, 115, 32, 61, 32, 91, 10>> (* var items = [\n *)
    \o <<32, 32, 91, 34, 115, 101, 112, 34, 44, 32, 34, 83, 101, 112, 97, 114, 97, 116, 111, 114, 34, 44, 32, 123, 32, 125, 93, 44, 10>> (*   ["sep", "Separator", { }],\n *)
    \o <<32, 32, 91, 34, 115, 101, 116, 99, 111, 117, 110, 116, 101, 114, 34, 44, 32, 34, 95, 95, 83, 101, 116, 67, 111, 117, 110, 116, 101, 114, 95, 95, 34, 44, 32, 123, 32, 125, 93, 44, 10>> (*   ["setcounter", "__SetCounter__", { }],\n *)
    \o <<32, 32, 91, 34, 105, 110, 116, 114, 111, 34, 44, 32, 34, 70, 111, 114, 109, 34, 44, 32, 123, 10>> (*   ["intro", "Form", {\n *)
    \o <<32, 32, 32, 32, 104, 116, 109, 108, 58, 32, 123, 32, 105, 110, 99, 108, 117, 100, 101, 58, 32, 34, 101, 120, 97, 109, 112, 108, 101, 95, 105, 110, 116, 114, 111, 46, 104, 116, 109, 108, 34, 32, 125, 44, 10>> (*     html: { include: "example_intro.html" },\n *)
    \o <<32, 32, 32, 32, 118, 97, 108, 105, 100, 97, 116, 111, 114, 115, 58, 32, 123, 10>> (*     validators: {\n *)
    \o <<32, 32, 32, 32, 32, 32, 97, 103, 101, 58, 32, 102, 117, 110, 99, 116, 105, 111, 110, 32, 40, 115, 41, 32, 123, 32, 105, 102, 32, 40, 115, 46, 109, 97, 116, 99, 104, 40, 47, 94, 92, 100, 43, 36, 47, 41, 41, 32, 114, 101, 116, 117, 114, 110, 32, 116, 114, 117, 101, 59, 32, 10>> (*       age: function (s) { if (s.match(/^\\d+$/)) return true; \n *)
    \o <<32, 32, 32, 32, 32, 32, 32, 32, 32, 32, 32, 32, 32, 32, 32, 32, 32, 32, 32, 32, 32, 32, 32, 32, 32, 32, 32, 101, 108, 115, 101, 32, 114, 101, 116, 117, 114, 110, 32, 34, 66, 97, 100, 32, 118, 97, 108, 117, 101, 32, 102, 111, 114, 32, 8216, 97, 103, 101, 8217, 34, 59, 32, 125, 10>> (*                            else return "Bad value for \u2018age\u2019"; }\n *)
    \o <<32, 32, 32, 32, 32, 32, 125, 10>> (*       }\n *)
    \o <<32, 32, 125, 32, 93, 44, 10>> (*   } ],\n *)
    \o <<32, 32, 32, 32, 91, 34, 112, 114, 97, 99, 116, 105, 99, 101, 34, 44, 32, 34, 68, 97, 115, 104, 101, 100, 83, 101, 110, 116, 101, 110, 99, 101, 34, 44, 32, 10>> (*     ["practice", "DashedSentence", \n *)
    \o <<32, 32, 32, 32, 32, 123, 115, 58, 32, 34, 84, 104, 105, 115, 32, 105, 115, 32, 97, 32, 112, 114, 97, 99, 116, 105, 99, 101, 32, 115, 101, 110, 116, 101, 110, 99, 101, 32, 116, 111, 32, 103, 101, 116, 32, 121, 111, 117, 32, 117, 115, 101, 100, 32, 116, 111, 32, 114, 101, 97, 100, 105, 110, 103, 32, 115, 101, 110, 116, 101, 110, 99, 101, 115, 32, 108, 105, 107, 101, 32, 116, 104, 105, 115, 46, 34, 125, 93, 44, 10>> (*      {s: "This is a practice sentence to get you used to reading sentences like this."}],\n *)
    \o <<32, 32, 32, 32, 91, 34, 112, 114, 97, 99, 116, 105, 99, 101, 34, 44, 32, 34, 68, 97, 115, 104, 101, 100, 83, 101, 110, 116, 101, 110, 99, 101, 34, 44, 32, 10>> (*     ["practice", "DashedSentence", \n *)
    \o <<32, 32, 32, 32, 32, 123, 115, 58, 32, 34, 84, 104, 105, 115, 32, 105, 115, 32, 97, 110, 111, 116, 104, 101, 114, 32, 112, 114, 97, 99, 116, 105, 99, 101, 32, 115, 101, 110, 116, 101, 110, 99, 101, 32, 119, 105, 116, 104, 32, 97, 32, 112, 114, 97, 99, 116, 105, 99, 101, 32, 113, 117, 101, 115, 116, 105, 111, 110, 32, 102, 111, 108, 108, 111, 119, 105, 110, 103, 32, 105, 116, 46, 34, 125, 44, 10>> (*      {s: "This is another practice sentence with a practice question following it."},\n *)
    \o <<32, 32, 32, 32, 32, 32, 32, 32, 32, 32, 32, 32, 32, 32, 32, 32, 32, 34, 81, 117, 101, 115, 116, 105, 111, 110, 34, 44, 32, 123, 104, 97, 115, 67, 111, 114, 114, 101, 99, 116, 58, 32, 102, 97, 108, 115, 101, 44, 32, 114, 97, 110, 100, 111, 109, 79, 114, 100, 101, 114, 58, 32, 102, 97, 108, 115, 101, 44, 10>> (*                  "Question", {hasCorrect: false, randomOrder: false,\n *)
    \o <<32, 32, 32, 32, 32, 32, 32, 32, 32, 32, 32, 32, 32, 32, 32, 32, 32, 32, 32, 32, 32, 32, 32, 32, 32, 32, 32, 32, 32, 32, 113, 58, 32, 34, 72, 111, 119, 32, 119, 111, 117, 108, 100, 32, 121, 111, 117, 32, 108, 105, 107, 101, 32, 116, 111, 32, 97, 110, 115, 119, 101, 114, 32, 116, 104, 105, 115, 32, 113, 117, 101, 115, 116, 105, 111, 110, 63, 34, 44, 10>> (*                               q: "How would you like to answer this question?",\n *)
    \o <<32, 32, 32, 32, 32, 32, 32, 32, 32, 32, 32, 32, 32, 32, 32, 32, 32, 32, 32, 32, 32, 32, 32, 32, 32, 32, 32, 32, 32, 32, 97, 115, 58, 32, 91, 34, 80, 114, 101, 115, 115, 32, 49, 32, 111, 114, 32, 99, 108, 105, 99, 107, 32, 104, 101, 114, 101, 32, 102, 111, 114, 32, 116, 104, 105, 115, 32, 97, 110, 115, 119, 101, 114, 46, 34, 44, 10>> (*                               as: ["Press 1 or click here for this answer.",\n *)
    \o <<32, 32, 32, 32, 32, 32, 32, 32, 32, 32, 32, 32, 32, 32, 32, 32, 32, 32, 32, 32, 32, 32, 32, 32, 32, 32, 32, 32, 32, 32, 32, 32, 32, 32, 32, 34, 80, 114, 101, 115, 115, 32, 50, 32, 111, 114, 32, 99, 108, 105, 99, 107, 32, 104, 101, 114, 101, 32, 102, 111, 114, 32, 116, 104, 105, 115, 32, 97, 110, 115, 119, 101, 114, 46, 34, 44, 10>> (*                                    "Press 2 or click here for this answer.",\n *)
    \o <<32, 32, 32, 32, 32, 32, 32, 32, 32, 32, 32, 32, 32, 32, 32, 32, 32, 32, 32, 32, 32, 32, 32, 32, 32, 32, 32, 32, 32, 32, 32, 32, 32, 32, 32, 34, 80, 114, 101, 115, 115, 32, 51, 32, 111, 114, 32, 99, 108, 105, 99, 107, 32, 104, 101, 114, 101, 32, 102, 111, 114, 32, 116, 104, 105, 115, 32, 97, 110, 115, 119, 101, 114, 46, 34, 93, 125, 93, 44, 10>> (*                                    "Press 3 or click here for this answer."]}],\n *)
    \o <<32, 32, 32, 32, 91, 34, 112, 114, 97, 99, 116, 105, 99, 101, 34, 44, 32, 34, 68, 97, 115, 104, 101, 100, 83, 101, 110, 116, 101, 110, 99, 101, 34, 44, 32, 10>> (*     ["practice", "DashedSentence", \n *)
    \o <<32, 32, 32, 32, 32, 123, 115, 58, 32, 34, 84, 104, 105, 115, 32, 105, 115, 32, 116, 104, 101, 32, 108, 97, 115, 116, 32, 112, 114, 97, 99, 116, 105, 99, 101, 32, 115, 101, 110, 116, 101, 110, 99, 101, 32, 98, 101, 102, 111, 114, 101, 32, 116, 104, 101, 32, 101, 120, 112, 101, 114, 105, 109, 101, 110, 116, 32, 98, 101, 103, 105, 110, 115, 46, 34, 125, 93, 44, 10>> (*      {s: "This is the last practice sentence before the experiment begins."}],\n *)
    \o <<10>> (* \n *)
    \o <<32, 32, 32, 32>> (*      *)
    \o stims_
    \o <<10>> (* \n *)
    \o <<93, 59, 10>> (* ];\n *)

\* conditions is the order in which the set of line 179 is iterated
write_ibex(stimtype, stims_, conditions) ==
    Try(write_stim_list(stimtype, stims_),
        LAMBDA rendered :
            Ok(IBEX_TEMPLATE(
                 join(<<44, 32>> (* ", " *),
                      [i \in 1..Len(conditions) |-> enquote(conditions[i])]),
                 join(<<44>> (* "," *), rendered))))

(***************************************************************************)
(* Inputs.                                                                 *)
(***************************************************************************)
RECURSIVE SeqsUpTo(_, _)
SeqsUpTo(S, n) ==
    IF n = 0 THEN {<<>>}
    ELSE LET shorter == SeqsUpTo(S, n - 1)
         IN  shorter \cup {Append(q, x) : q \in {r \in shorter : Len(r) = n - 1}, x \in S}

\* lines of an input file, as iterating the open file hands them out: spec
\* lines (one with an EM SPACE between two tokens and the item 2 as an
\* ARABIC-INDIC DIGIT, one whose item is no number), a sentence after a
\* NO-BREAK SPACE, two question lines (one with an unknown answer) and a
\* blank line of a space and a vertical tab
FileLines ==
    { <<35, 32, 101, 32, 49, 32, 99, 10>> (* "# e 1 c\n" *),
      <<35, 32, 102, 105, 108, 108, 101, 114, 8195, 1634, 32, 100, 10>> (* "# filler\u2003\u0662 d\n" *),
      <<35, 32, 101, 32, 120, 32, 99, 10>> (* "# e x c\n" *),
      <<160, 115, 10>> (* "\xa0s\n" *),
      <<63, 32, 113, 32, 121, 10>> (* "? q y\n" *),
      <<63, 32, 113, 32, 109, 10>> (* "? q m\n" *),
      <<32, 11, 10>> (* " \x0b\n" *) }

\* the input files
InputFiles == SeqsUpTo(FileLines, MaxLines)

(***************************************************************************)
(* The run of main(filename): print(run(stimtype, infile)).                *)
(* parse_linger only builds lazy iterators; the work starts with           *)
(* stims = list(stims) in write_ibex, which pulls one Stim at a time       *)
(* through map(parse_stim, flat(map(split_item, isplit(lines, "")))).      *)
(* A block isplit yields is the lazy chain([probe], subit): isplit has     *)
(* read its first line only, and split_item reads the others as its loop   *)
(* reaches them.                                                           *)
(***************************************************************************)
Init ==
    /\ lines \in InputFiles
    /\ python \in PIPELINE_PYTHONS
    /\ sys_stdout \in PIPELINE_STDOUTS
    /\ pos = 0
    /\ pc = "isplit"
    /\ blocks = <<>>
    /\ subit_live = FALSE
    /\ stim = <<>>
    /\ line = <<>>
    /\ resume_at = "none"
    /\ groups = <<>>
    /\ parsed = <<>>
    /\ stims = <<>>
    /\ error = NoError
    /\ result = <<>>
    /\ stdout = <<>>
    /\ call = NoCall

Abort(type, at) ==
    /\ error' = [type |-> type, at |-> at]
    /\ pc' = "raised"

\* lines 91-96, xs_it having handed out its first at elements: a new subit
\* is made and probed.  The probe ends the generator when the next line is
\* the separator or there is no next line
IsplitProbe(xs, at) ==
    /\ pos' = IF at < Len(xs) THEN at + 1 ELSE at
    /\ IF at < Len(xs) /\ xs[at + 1] # <<>>
       THEN \* yield chain([probe], subit)
            /\ blocks' = Append(blocks, <<xs[at + 1]>>)
            /\ subit_live' = TRUE
            /\ resume_at' = "line 152"
            /\ pc' = "split_item"
            /\ UNCHANGED error
       ELSE \* next(subit) raised StopIteration: raise StopIteration
            /\ UNCHANGED blocks
            /\ subit_live' = FALSE
            /\ resume_at' = "none"
            /\ IF legacy_stop
               THEN pc' = "write_ibex" /\ UNCHANGED error
               ELSE Abort("RuntimeError", "isplit")

\* isplit is started, or resumed after the split_item generator of the
\* block before has returned: consume(subit) reads what is left of that
\* block, then the next block is probed
IsplitNext ==
    /\ pc = "isplit"
    /\ IsplitProbe(stripped(lines),
                   IF subit_live THEN subit_end(stripped(lines), pos, <<>>) ELSE pos)
    /\ stim' = <<>>
    /\ line' = <<>>
    /\ groups' = <<>>
    /\ UNCHANGED <<lines, python, sys_stdout, parsed, stims, result, stdout, call>>

\* lines 156-161 from the top of the loop, stim being stim_, to the next
\* yield: read are the lines the loop takes from subit
SplitItemFor(stim_, line_, read) ==
    /\ blocks' = [blocks EXCEPT ![Len(blocks)] = @ \o read]
    /\ line' = IF read = <<>> THEN line_ ELSE read[Len(read)]
    /\ IF at_spec_line(read)
       THEN \* yield stim, line 158
            /\ stim' = stim_ \o SubSeq(read, 1, Len(read) - 1)
            /\ pos' = pos + Len(read)
            /\ resume_at' = "line 158"
            /\ UNCHANGED subit_live
       ELSE \* subit is exhausted: yield stim, line 161
            /\ stim' = stim_ \o read
            /\ pos' = subit_end(stripped(lines), pos, <<>>)
            /\ resume_at' = "line 161"
            /\ subit_live' = FALSE
    /\ groups' = Append(groups, stim')
    /\ pc' = "parse_stim"
    /\ UNCHANGED error

\* flat starts the split_item generator on the block isplit yielded: it
\* runs to its first yield
SplitItemStart ==
    /\ pc = "split_item"
    /\ resume_at = "line 152"
    /\ IF ~startswith(blocks[Len(blocks)][1], LINGER_SPEC_PREFIX)
       THEN /\ Abort("AssertionError", "split_item")
            /\ UNCHANGED <<pos, blocks, subit_live, stim, line, resume_at, groups>>
       ELSE SplitItemFor(<<blocks[Len(blocks)][1]>>, <<>>,
                         for_lines(subit(stripped(lines), pos, <<>>)))
    /\ UNCHANGED <<lines, python, sys_stdout, parsed, stims, result, stdout, call>>

\* flat resumes the split_item generator after the yield of line 158: it
\* runs to its next yield
SplitItemNext ==
    /\ pc = "split_item"
    /\ resume_at = "line 158"
    /\ SplitItemFor(resumed_stim(stim, line), line,
                    for_lines(subit(stripped(lines), pos, <<>>)))
    /\ UNCHANGED <<lines, python, sys_stdout, parsed, stims, result, stdout, call>>

\* map calls parse_stim with the group split_item yielded; list(stims) then
\* asks for the next Stim, which resumes split_item, or, split_item
\* returning after the yield of line 161, isplit
ParseStimNext ==
    /\ pc = "parse_stim"
    /\ parsed' = Append(parsed, stim)
    /\ LET r == parse_stim(stim)
       IN  IF r.err # "none"
           THEN Abort(r.err, "parse_stim") /\ UNCHANGED stims
           ELSE /\ stims' = Append(stims, r.val)
                /\ pc' = IF resume_at = "line 161" THEN "isplit" ELSE "split_item"
                /\ UNCHANGED error
    /\ UNCHANGED <<lines, python, sys_stdout, pos, blocks, subit_live, stim, line,
                   resume_at, groups, result, stdout, call>>

\* the rest of write_ibex, once list(stims) has returned; rendering runs
\* through the questions of the Stims
WriteIbex ==
    /\ pc = "write_ibex"
    /\ stims' = stims_written(STIMTYPE, stims)
    /\ \E conditions \in conditions_iter(stims) :
          LET r == write_ibex(STIMTYPE, stims, conditions)
          IN  IF r.err # "none"
              THEN Abort(r.err, "write_ibex") /\ UNCHANGED result
              ELSE /\ result' = r.val
                   /\ pc' = "print"
                   /\ UNCHANGED error
    /\ UNCHANGED <<lines, python, sys_stdout, pos, blocks, subit_live, stim, line,
                   resume_at, groups, parsed, stdout, call>>

\* main: the print of print(run(stimtype, infile)), run having returned
Main ==
    /\ pc = "print"
    /\ IF \A i \in 1..Len(result) : encodable(result[i])
       THEN /\ stdout' = stdout \o result \o <<10 (* '\n' *)>>
            /\ pc' = "done"
            /\ UNCHANGED error
       ELSE \* sys.stdout.write(text) encodes the whole text before it
            \* writes any of it
            /\ Abort("UnicodeEncodeError", "main")
            /\ UNCHANGED stdout
    /\ UNCHANGED <<lines, python, sys_stdout, pos, blocks, subit_live, stim,
                   line, resume_at, groups, parsed, stims, result, call>>

Next ==
    \/ IsplitNext
    \/ SplitItemStart
    \/ SplitItemNext
    \/ ParseStimNext
    \/ WriteIbex
    \/ Main

Spec == Init /\ [][Next]_vars

(***************************************************************************)
(* Direct calls of the parsing and rendering functions, one per behaviour. *)
(***************************************************************************)
\* spec lines and near misses: [prefix] experiment item condition [rest],
\* and lines with other whitespace and other digits, among them digits of
\* each version of Unicode after 9.0
SpecLineInputs ==
    { prefix \o experiment \o <<32 (* ' ' *)>> \o item \o <<32 (* ' ' *)>> \o condition \o rest :
        prefix \in {<<35, 32>> (* "# " *), <<35>> (* "#" *), <<>>},
        experiment \in {<<101>> (* "e" *), <<35, 101>> (* "#e" *), <<102, 105, 108, 108, 101, 114, 49>> (* "filler1" *)},
        item \in {<<51>> (* "3" *), <<45, 51>> (* "-3" *), <<120>> (* "x" *), <<48, 55>> (* "07" *), <<49, 95, 48>> (* "1_0" *)},
        condition \in {<<99>> (* "c" *), <<99, 35>> (* "c#" *)},
        rest \in {<<>>, <<32, 114>> (* " r" *)} }
    \cup { <<35, 32, 101, 32, 51>> (* "# e 3" *), <<35, 32>> (* "# " *),
           <<35, 32, 101, 160, 51, 8195, 99, 31>> (* "# e\xa03\u2003c\x1f" *),
           <<35, 32, 101, 32, 1635, 32, 99>> (* "# e \u0663 c" *),
           <<35, 32, 101, 32, 45, 65299, 1635, 32, 99>> (* "# e -\uff13\u0663 c" *),
           <<35, 32, 101, 32, 49, 95, 1635, 32, 99>> (* "# e 1_\u0663 c" *),
           <<35, 32, 101, 32, 51, 8490, 32, 99>> (* "# e 3\u212a c" *),
           <<35, 32, 101, 32, 68914, 32, 99>> (* "# e \U00010D32 c" *),
           <<35, 32, 101, 32, 123200, 32, 99>> (* "# e \U0001E140 c" *),
           <<35, 32, 101, 32, 130036, 32, 99>> (* "# e \U0001FBF4 c" *),
           <<35, 32, 101, 32, 49, 92867, 32, 99>> (* "# e 1\U00016AC3 c" *),
           <<35, 32, 101, 32, 73553, 32, 99>> (* "# e \U00011F51 c" *) }

\* question lines and near misses: [prefix] text answer [suffix], and lines
\* with another space and with letters outside A to Z
QuestionLineInputs ==
    { prefix \o text \o <<32 (* ' ' *)>> \o answer \o suffix :
        prefix \in {<<63, 32>> (* "? " *), <<63>> (* "?" *), <<>>},
        text \in {<<113>> (* "q" *), <<97, 32, 98>> (* "a b" *), <<63, 113>> (* "?q" *)},
        answer \in {<<121>> (* "y" *), <<89>> (* "Y" *), <<121, 101, 115>> (* "yes" *), <<121, 69, 115>> (* "yEs" *), <<110>> (* "n" *), <<110, 111>> (* "no" *), <<78, 111>> (* "No" *),
                    <<109>> (* "m" *), <<121, 101>> (* "ye" *), <<110, 121>> (* "ny" *)},
        suffix \in {<<>>, <<63>> (* "?" *)} }
    \cup { <<63, 32, 121>> (* "? y" *), <<63, 32>> (* "? " *),
           <<63, 32, 113, 160, 121>> (* "? q\xa0y" *),
           <<63, 32, 113, 32, 121, 101, 383>> (* "? q ye\u017f" *),
           <<63, 32, 113, 32, 8490>> (* "? q \u212a" *),
           <<63, 32, 304, 32, 78, 927>> (* "? \u0130 N\u039f" *) }

SpecInputs ==
    { Spec_(experiment, condition, item, <<>>) :
        experiment \in {<<101>> (* "e" *), FILLER, <<102, 105, 108, 108, 101, 114, 49>> (* "filler1" *), <<102, 105, 108, 108, 101>> (* "fille" *), <<120, 102, 105, 108, 108, 101, 114>> (* "xfiller" *)},
        condition \in {<<99>> (* "c" *), <<100>> (* "d" *)},
        item \in {0, 7, 12, -3} }

ROUND_TRIP_BLOCK ==
    << <<35, 32, 101, 120, 112, 49, 32, 51, 32, 99, 111, 110, 100, 49>> (* "# exp1 3 cond1" *),
       <<84, 104, 101, 32, 99, 97, 116, 32, 115, 97, 116, 46>> (* "The cat sat." *),
       <<63, 32, 68, 105, 100, 32, 116, 104, 101, 32, 99, 97, 116, 32, 115, 105, 116, 63, 32, 121>> (* "? Did the cat sit? y" *) >>

GroupInputs ==
    { ROUND_TRIP_BLOCK,
      <<>>,
      << <<35, 32, 101, 32, 49, 32, 99>> (* "# e 1 c" *) >>,
      << <<35, 32, 101, 32, 49, 32, 99>> (* "# e 1 c" *), <<115>> (* "s" *) >>,
      << <<35, 32, 101, 32, 120, 32, 99>> (* "# e x c" *), <<115>> (* "s" *) >>,
      << <<35, 32, 101, 32, 49, 32, 99>> (* "# e 1 c" *), <<115>> (* "s" *), <<63, 32, 113, 32, 109>> (* "? q m" *) >>,
      << <<35, 32, 102, 105, 108, 108, 101, 114, 32, 50, 32, 100>> (* "# filler 2 d" *), <<115>> (* "s" *), <<63, 32, 113, 32, 110>> (* "? q n" *), <<63, 32, 114, 32, 121, 101, 115>> (* "? r yes" *) >>,
      << <<35, 32, 101, 32, 49, 32, 99>> (* "# e 1 c" *), <<115>> (* "s" *), <<63, 32, 113, 32, 110>> (* "? q n" *), <<63, 32, 113, 32, 109>> (* "? q m" *), <<63, 32, 113, 32, 121>> (* "? q y" *) >> }

StimInputs ==
    { Stim(spec, <<115>> (* "s" *), questions) :
        spec \in { Spec_(<<101>> (* "e" *), <<99>> (* "c" *), 1, <<>>),
                   Spec_(<<101>> (* "e" *), <<99>> (* "c" *), 2, <<>>),
                   Spec_(<<101>> (* "e" *), <<100>> (* "d" *), 1, <<>>),
                   Spec_(FILLER, <<99>> (* "c" *), 3, <<>>) },
        questions \in { <<>>, << <<63, 32, 113, 32, 121>> (* "? q y" *) >>, << <<63, 32, 113, 32, 109>> (* "? q m" *) >> } }

StimLists == SeqsUpTo(StimInputs, MaxStims)

InitFn ==
    /\ lines = <<>>
    /\ python \in PYTHONS
    /\ sys_stdout \in STDOUTS
    /\ pos = 0
    /\ pc = "direct call"
    /\ blocks = <<>>
    /\ subit_live = FALSE
    /\ stim = <<>>
    /\ line = <<>>
    /\ resume_at = "none"
    /\ groups = <<>>
    /\ parsed = <<>>
    /\ stims = <<>>
    /\ error = NoError
    /\ result = <<>>
    /\ stdout = <<>>
    /\ call = NoCall

Called(fn, arg, ret) == call' = [fn |-> fn, arg |-> arg, ret |-> ret]

CallParseSpec ==
    /\ call = NoCall
    /\ \E line_ \in SpecLineInputs : Called("parse_spec", line_, parse_spec(line_))
    /\ UNCHANGED pipeline

CallParseQuestion ==
    /\ call = NoCall
    /\ \E line_ \in QuestionLineInputs :
          Called("parse_question", line_, parse_question(line_))
    /\ UNCHANGED pipeline

CallWriteSpec ==
    /\ call = NoCall
    /\ \E spec \in SpecInputs : Called("write_spec", spec, Ok(write_spec(spec)))
    /\ UNCHANGED pipeline

CallParseStim ==
    /\ call = NoCall
    /\ \E group \in GroupInputs : Called("parse_stim", group, parse_stim(group))
    /\ UNCHANGED pipeline

\* write_stim on the Stim a call of parse_stim returned
CallWriteStim ==
    /\ call.fn = "parse_stim"
    /\ call.ret.err = "none"
    /\ Called("write_stim", call.ret.val, write_stim(STIMTYPE, call.ret.val))
    /\ UNCHANGED pipeline

\* write_stim a second time on the same Stim, whose questions the first
\* call has run through
CallWriteStimAgain ==
    /\ call.fn = "write_stim"
    /\ Called("write_stim again", stim_written(call.arg),
              write_stim(STIMTYPE, stim_written(call.arg)))
    /\ UNCHANGED pipeline

\* write_ibex on a list of Stims
CallWriteIbex ==
    /\ call = NoCall
    /\ \E list \in StimLists :
          \E conditions \in conditions_iter(list) :
             Called("write_ibex", list, write_ibex(STIMTYPE, list, conditions))
    /\ UNCHANGED pipeline

NextFn ==
    \/ CallParseSpec
    \/ CallParseQuestion
    \/ CallWriteSpec
    \/ CallParseStim
    \/ CallWriteStim
    \/ CallWriteStimAgain
    \/ CallWriteIbex

SpecFn == InitFn /\ [][NextFn]_vars

(***************************************************************************)
(* Properties.                                                             *)
(***************************************************************************)
IsPrefix(p, q) == Len(p) <= Len(q) /\ SubSeq(q, 1, Len(p)) = p
Contains(text, fragment) ==
    \E i \in 0..(Len(text) - Len(fragment)) :
        SubSeq(text, i + 1, i + Len(fragment)) = fragment
SelectNonBlank(xs) == SelectSeq(xs, LAMBDA x : x # <<>>)

\* the maximal runs of non-blank elements of xs, in order
RECURSIVE NonBlankRuns(_)
NonBlankRuns(xs) ==
    IF xs = <<>> THEN <<>>
    ELSE IF xs[1] = <<>> THEN NonBlankRuns(Tail(xs))
    ELSE LET blanks == {i \in 1..Len(xs) : xs[i] = <<>>}
             n == IF blanks = {} THEN Len(xs)
                  ELSE (CHOOSE i \in blanks : \A j \in blanks : i <= j) - 1
         IN  <<SubSeq(xs, 1, n)>> \o NonBlankRuns(SubSeq(xs, n + 1, Len(xs)))

\* isplit's generator has ended, normally or with the RuntimeError
IsplitEnded ==
    pc \in {"write_ibex", "print", "done"} \/ error.at \in {"isplit", "main"}

\* C1: once isplit has ended, the blocks it yielded are exactly the maximal
\* runs of lines that are non-blank after trimming, in source order; leading,
\* trailing and consecutive blank lines lose no later line.
C1_BlocksAreMaximalRuns ==
    IsplitEnded => blocks = NonBlankRuns(stripped(lines))

\* how many of the yielded groups parse_stim has been called with
HandedOver == IF pc = "parse_stim" THEN Len(groups) - 1 ELSE Len(groups)

\* the last line read is the separator that ended the block
SeparatorRead == pos > 0 /\ stripped(lines)[pos] = <<>>

\* where the block that split_item has run through ends in the input
BlockEnd == IF SeparatorRead THEN pos - 1 ELSE pos

\* C2: (a) every group split_item yields starts with a "# " line and has no
\* other "# " line, (b) the groups yielded so far, concatenated, are the
\* lines read from the block but a "# " line the loop holds, and once
\* split_item has run through the block they are the block's lines, a
\* maximal run of non-blank lines of the input, (c) parse_stim is called
\* with the groups in source order: the groups it has been called with end
\* with the ones the running split_item has yielded, and concatenated they
\* are an initial part of the non-blank trimmed lines of the input.
C2_SplitItemGroups ==
    /\ \A k \in 1..Len(groups) :
          /\ groups[k] # <<>>
          /\ startswith(groups[k][1], LINGER_SPEC_PREFIX)
          /\ \A i \in 2..Len(groups[k]) :
                ~startswith(groups[k][i], LINGER_SPEC_PREFIX)
    /\ resume_at = "line 158" =>
          blocks[Len(blocks)] = flat(groups) \o <<line>>
    /\ resume_at = "line 161" =>
          /\ blocks[Len(blocks)] = flat(groups)
          /\ flat(groups) =
                SubSeq(stripped(lines), BlockEnd - Len(flat(groups)) + 1, BlockEnd)
          /\ BlockEnd = Len(lines) \/ SeparatorRead
          /\ \/ BlockEnd = Len(flat(groups))
             \/ stripped(lines)[BlockEnd - Len(flat(groups))] = <<>>
    /\ HandedOver <= Len(parsed)
    /\ SubSeq(parsed, Len(parsed) - HandedOver + 1, Len(parsed))
          = SubSeq(groups, 1, HandedOver)
    /\ IsPrefix(flat(parsed), SelectNonBlank(stripped(lines)))

\* a block of two groups, the first of more than one line, run through and
\* both groups handed to parse_stim
C2_Witness ==
    /\ Len(groups) >= 2
    /\ resume_at = "line 161"
    /\ pc = "isplit"
    /\ Len(parsed) >= 2
    /\ Len(groups[1]) >= 2

\* C3: for a line starting with "? ", the text after the prefix is split at
\* its last space into question text and answer token; the answers are
\* ["Yes","No"] iff the token is y or yes in any case, ["No","Yes"] iff it is
\* n or no, and any other token fails.  (A line with no space after the
\* prefix is left open.)
C3_ParseQuestionByLastToken ==
    (call.fn = "parse_question" /\ startswith(call.arg, QUESTION_PREFIX)) =>
        LET parts == rsplit1(SubSeq(call.arg, 3, Len(call.arg)))
            token == parts[Len(parts)]
            yes == lower_equals(token, <<121>> (* "y" *)) \/ lower_equals(token, <<121, 101, 115>> (* "yes" *))
            no == lower_equals(token, <<110>> (* "n" *)) \/ lower_equals(token, <<110, 111>> (* "no" *))
        IN  Len(parts) = 2 =>
               /\ yes <=> (call.ret.err = "none" /\ call.ret.val.answers = <<YES, NO>>)
               /\ no <=> (call.ret.err = "none" /\ call.ret.val.answers = <<NO, YES>>)
               /\ ~(yes \/ no) <=> call.ret.err # "none"
               /\ call.ret.err = "none" =>
                     /\ call.ret.val.question = parts[1]
                     /\ Len(call.ret.val.answers) = 2

\* C4: parse_spec fails exactly when the line does not start with "# ", or
\* fewer than 3 whitespace-separated tokens follow the prefix, or token 2 is
\* no integer literal; otherwise it returns the tokens after the prefix,
\* unchanged: Spec(token 1, token 3, int(token 2), the remaining tokens).
C4_ParseSpecByTokens ==
    call.fn = "parse_spec" =>
        LET toks == split(SubSeq(call.arg, 3, Len(call.arg)))
            fails == \/ ~startswith(call.arg, LINGER_SPEC_PREFIX)
                     \/ Len(toks) < 3
                     \/ ~int_valid(toks[2])
        IN  /\ fails <=> call.ret.err # "none"
            /\ ~fails =>
                  /\ call.ret.err = "none"
                  /\ call.ret.val.experiment = toks[1]
                  /\ call.ret.val.condition = toks[3]
                  /\ call.ret.val.item = int_value(toks[2])
                  /\ call.ret.val.rest = SubSeq(toks, 4, Len(toks))

\* a question line that parse_question rejects
BadQuestion(line_) == parse_question(line_).err # "none"

\* a group parse_stim was called with has a question line that
\* parse_question rejects
BadQuestionParsed ==
    \E i \in 1..Len(parsed) : \E k \in 3..Len(parsed[i]) : BadQuestion(parsed[i][k])

\* C5: a run that fails has stopped and has written nothing to standard
\* output; output is there only when the run is over without error, every
\* group of every block has been parsed, every Stim has been rendered to
\* its last question and no question line of any stimulus is one
\* parse_question rejects.
C5_NoOutputOnFailure ==
    /\ error.type # "none" => (pc = "raised" /\ stdout = <<>> /\ ~ENABLED Next)
    /\ pc = "raised" => error.type # "none"
    /\ stdout # <<>> =>
          /\ pc = "done"
          /\ error = NoError
          /\ stdout = result \o <<10 (* '\n' *)>>
          /\ resume_at = "none"
          /\ pos = Len(lines) \/ SeparatorRead
          /\ Len(stims) = Len(parsed)
          /\ \A i \in 1..Len(stims) : stims[i].questions = <<>>
          /\ ~BadQuestionParsed

\* a stimulus was parsed, its question with an unrecognized answer was found
\* only while rendering, and nothing was written
C5_Witness ==
    /\ error = [type |-> "ValueError", at |-> "write_ibex"]
    /\ Len(stims) = Len(parsed)
    /\ BadQuestionParsed
    /\ stdout = <<>>

\* C6: write_spec renders "experiment_condition", in double quotes and with
\* no item, when experiment starts with "filler", and otherwise
\* ["experiment_condition", item].
C6_WriteSpecFiller ==
    call.fn = "write_spec" =>
        LET label == call.arg.experiment \o <<95 (* '_' *)>> \o call.arg.condition
        IN  IF startswith(call.arg.experiment, FILLER)
            THEN call.ret.val = <<34 (* '"' *)>> \o label \o <<34 (* '"' *)>>
            ELSE call.ret.val =
                    <<91 (* '[' *), 34 (* '"' *)>> \o label \o <<34 (* '"' *), 44 (* ',' *), 32 (* ' ' *)>>
                    \o int_str(call.arg.item) \o <<93 (* ']' *)>>

\* a filler whose experiment is longer than "filler", with item 7
C6_Witness ==
    /\ call.fn = "write_spec"
    /\ startswith(call.arg.experiment, FILLER)
    /\ call.arg.experiment # FILLER
    /\ call.arg.item = 7
    /\ ~Contains(call.ret.val, <<55>> (* "7" *))

\* the sequences that list every element of the set S once
Enumerations(S) ==
    {order \in [1..Cardinality(S) -> S] :
        \A i, j \in 1..Cardinality(S) : i # j => order[i] # order[j]}

Labels(list) ==
    {list[i].spec.experiment \o <<95 (* '_' *)>> \o list[i].spec.condition : i \in 1..Len(list)}

\* C7: the text write_ibex puts between rshuffle( and its closing bracket
\* is the quoted labels experiment_condition of the stimuli, fillers
\* included, each label once, in some order, joined by ", ".
C7_ConditionsAreTheLabelSet ==
    (call.fn = "write_ibex" /\ call.ret.err = "none") =>
        \E order \in Enumerations(Labels(call.arg)) :
            startswith(call.ret.val,
                <<118, 97, 114, 32, 115, 104, 117, 102, 102, 108, 101, 83, 101, 113, 117, 101, 110, 99, 101, 32, 61, 32, 115, 101, 113, 40, 34, 105, 110, 116, 114, 111, 34, 44, 32, 115, 101, 112, 87, 105, 116, 104, 40, 34, 115, 101, 112, 34, 44, 32, 115, 101, 113, 40, 34, 112, 114, 97, 99, 116, 105, 99, 101, 34, 44, 32, 114, 115, 104, 117, 102, 102, 108, 101, 40>> (* "var shuffleSequence = seq(\"intro\", sepWith(\"sep\", seq(\"practice\", rshuffle(" *)
                \o join(<<44 (* ',' *), 32 (* ' ' *)>>,
                        [i \in 1..Len(order) |-> <<34 (* '"' *)>> \o order[i] \o <<34 (* '"' *)>>])
                \o <<41, 41, 41, 41, 10>> (* "))))\n" *))

\* two stimuli of the same label and different items, rendered
C7_Witness ==
    /\ call.fn = "write_ibex"
    /\ call.ret.err = "none"
    /\ Len(call.arg) = 2
    /\ Cardinality(Labels(call.arg)) = 1
    /\ call.arg[1].spec.item # call.arg[2].spec.item

ROUND_TRIP_SPEC == Spec_(<<101, 120, 112, 49>> (* "exp1" *), <<99, 111, 110, 100, 49>> (* "cond1" *), 3, <<>>)
ROUND_TRIP_STIM == Stim(ROUND_TRIP_SPEC, ROUND_TRIP_BLOCK[2], <<ROUND_TRIP_BLOCK[3]>>)
ROUND_TRIP_QUESTION == Question(<<68, 105, 100, 32, 116, 104, 101, 32, 99, 97, 116, 32, 115, 105, 116, 63>> (* "Did the cat sit?" *), <<YES, NO>>)

\* the round-trip block parses to Spec(exp1, cond1, 3, []), the sentence and
\* the one Question("Did the cat sit?", ["Yes","No"])
RoundTripParse ==
    (call.fn = "parse_stim" /\ call.arg = ROUND_TRIP_BLOCK) =>
        /\ call.ret.err = "none"
        /\ call.ret.val.spec = ROUND_TRIP_SPEC
        /\ call.ret.val.sentence = <<84, 104, 101, 32, 99, 97, 116, 32, 115, 97, 116, 46>> (* "The cat sat." *)
        /\ [i \in 1..Len(call.ret.val.questions) |->
                parse_question(call.ret.val.questions[i])]
              = <<Ok(ROUND_TRIP_QUESTION)>>

\* the rendering of the round-trip stimulus contains the sentence fragment
\* and the two others
RoundTripRender(sentence_fragment) ==
    (call.fn = "write_stim" /\ call.arg = ROUND_TRIP_STIM) =>
        /\ call.ret.err = "none"
        /\ Contains(call.ret.val, <<91, 34, 101, 120, 112, 49, 95, 99, 111, 110, 100, 49, 34, 44, 32, 51, 93>> (* "[\"exp1_cond1\", 3]" *))
        /\ Contains(call.ret.val, sentence_fragment)
        /\ Contains(call.ret.val, <<34, 81, 117, 101, 115, 116, 105, 111, 110, 34, 44, 32, 123, 113, 58, 32, 34, 68, 105, 100, 32, 116, 104, 101, 32, 99, 97, 116, 32, 115, 105, 116, 63, 34>> (* "\"Question\", {q: \"Did the cat sit?\"" *))
        /\ Contains(call.ret.val, <<97, 115, 58, 32, 91, 34, 89, 101, 115, 34, 44, 32, 34, 78, 111, 34, 93>> (* "as: [\"Yes\", \"No\"]" *))

\* C8 as stated: the rendered fragment contains "s": "The cat sat.", the key
\* s in double quotes.
C8_RoundTripQuotedKey ==
    /\ RoundTripParse
    /\ RoundTripRender(<<34, 115, 34, 58, 32, 34, 84, 104, 101, 32, 99, 97, 116, 32, 115, 97, 116, 46, 34>> (* "\"s\": \"The cat sat.\"" *))

\* C8: the round-trip block parses to Spec(exp1, cond1, 3, []), sentence
\* "The cat sat." and Question("Did the cat sit?", ["Yes","No"]), and its
\* rendering contains ["exp1_cond1", 3], {s: "The cat sat."} with the key s
\* not quoted, and a Question fragment with as: ["Yes", "No"].
C8_RoundTrip ==
    /\ RoundTripParse
    /\ RoundTripRender(<<123, 115, 58, 32, 34, 84, 104, 101, 32, 99, 97, 116, 32, 115, 97, 116, 46, 34, 125>> (* "{s: \"The cat sat.\"}" *))

\* the round-trip stimulus, parsed and rendered
C8_Witness ==
    /\ call.fn = "write_stim"
    /\ call.arg = ROUND_TRIP_STIM
    /\ call.ret.err = "none"

\* C9: every Spec parse_spec returns has an item that is not negative.
C9_ItemNonNegative ==
    (call.fn = "parse_spec" /\ call.ret.err = "none") => call.ret.val.item >= 0

\* every block starts with a spec line, every group has a spec line that
\* parse_spec accepts and a sentence, and every question line is accepted
WellFormedGroup(group) ==
    /\ Len(group) >= 2
    /\ parse_spec(group[1]).err = "none"
    /\ \A k \in 3..Len(group) : ~BadQuestion(group[k])

WellFormedBlock(block) ==
    /\ startswith(block[1], LINGER_SPEC_PREFIX)
    /\ \A k \in 1..Len(split_item(block).val) :
          WellFormedGroup(split_item(block).val[k])

WellFormedInput ==
    \A b \in 1..Len(NonBlankRuns(stripped(lines))) :
        WellFormedBlock(NonBlankRuns(stripped(lines))[b])

\* C10: on a well-formed input the run does not fail: isplit ends its
\* sequence without an error when the lines are exhausted.
C10_WellFormedRunSucceeds ==
    WellFormedInput => error.type = "none"

=============================================================================
